---- MODULE Spec2Model ----
(***************************************************************************)
(* Model of the adversarial-training run controller, main() of             *)
(* src/main_adv.py: the per-epoch augmentation curriculum, the epoch       *)
(* set-up, the checkpoint policy keyed on robust accuracy, and the per     *)
(* epoch log.                                                              *)
(*                                                                         *)
(* Conventions.                                                            *)
(*  - Probabilities and alphas (mixup_prob, cutmix, mixup_switch_prob) are *)
(*    kept in hundredths: 0.95 is 95, 1.0 is 100.                          *)
(*  - Accuracies are small naturals; only their order matters to the code. *)
(*  - A python dict of statistics is represented by its acc1 entry;        *)
(*    EmptyStats stands for the empty dict {}.                             *)
(*  - Data loaders are numbered by augmentation level: data_loader_train_k *)
(*    is k (1..9); 0 is the static data_loader_train of a run without the  *)
(*    curriculum (and the not yet bound name of a run with it).            *)
(***************************************************************************)
EXTENDS Integers, Sequences, FiniteSets, TLC

(***************************************************************************)
(* Bounds of the model.                                                    *)
(***************************************************************************)
MaxEpochs ==
    12
MaxFreq ==
    2
MaxAcc ==
    2
MaxRestarts ==
    1
MaxResumeEpochs ==
    4
MaxTwinEpochs ==
    3
MaxScale ==
    3
MaxEps ==
    2
MaxStep ==
    2
MaxIter ==
    3

AccValues == 0..MaxAcc
Levels == 1..9
WarmupChoices == {5, 10, 20}

\* the empty dict {} of test_stats / test_robust_stats (main, lines 650-651)
EmptyStats == -1
\* no checkpoint in a slot
NoEpoch == -1

VARIABLES
    args,               \* the argparse namespace fields main never rewrites
    start_epoch,        \* args.start_epoch
    mix,                \* args.mixup_prob, args.cutmix, args.mixup_switch_prob
    mixup_fn,           \* the parameters the current Mixup instance was built with
    data_loader_train,  \* the loader bound to the name data_loader_train
    sampler_epoch,      \* epoch counter of each loader's DistributedSampler
    model_attacker,     \* the attacker installed on the model
    epoch,              \* loop variable of the epoch loop
    pc,                 \* position of main
    steps,              \* operations main has performed in the current epoch, in order
    train_stats,        \* epoch of the last train_one_epoch result
    test_stats,         \* acc1 of the last clean evaluation
    test_robust_stats,  \* acc1 of the last robust evaluation
    max_accuracy,       \* best robust acc1 so far in this process
    log_stats,          \* the record assembled for this epoch
    latest_slot,        \* epoch stored in the newest checkpoint-<epoch> file
    best_slot,          \* robust acc1 of the model that checkpoint-best holds
    log,                \* lines of log.txt
    robust_seen,        \* robust acc1 values evaluate returned in this process
    used_loaders,       \* loaders handed to train_one_epoch in this process
    restarts,           \* number of times the process was killed and relaunched
    tw,                 \* two runs of the checkpoint policy side by side
    pgd,                \* one attack of the projected-gradient attacker
    su                  \* main before the epoch loop, where that is the subject

persistent == <<latest_slot, best_slot, log>>
locals == <<mix, mixup_fn, data_loader_train, sampler_epoch, model_attacker, epoch,
            steps, train_stats, test_stats, test_robust_stats, max_accuracy,
            log_stats, robust_seen, used_loaders>>
other == <<tw, pgd, su>>
vars == <<args, start_epoch, pc, restarts, locals, persistent, other>>

(***************************************************************************)
(* AugmentationCurriculum: the two literal tables of main, lines 659-755.  *)
(***************************************************************************)
Row(l, p, c, s) == [loader |-> l, mixup_prob |-> p, cutmix |-> c, mixup_switch_prob |-> s]

\* the 10-epoch table still ramping after epoch 10
select10_late(e) ==
    CASE e = 0 -> Row(1, 50, 0, 0)
      [] e = 1 -> Row(1, 60, 0, 0)
      [] e = 2 -> Row(2, 70, 0, 0)
      [] e = 3 -> Row(3, 80, 0, 0)
      [] e = 4 -> Row(4, 90, 0, 0)
      [] e = 5 -> Row(5, 100, 0, 0)
      [] e = 6 -> Row(6, 100, 100, 10)
      [] e = 7 -> Row(7, 100, 100, 20)
      [] e = 8 -> Row(8, 90, 100, 30)
      [] e = 9 -> Row(9, 95, 100, 40)
      [] e = 10 -> Row(9, 98, 100, 45)
      [] OTHER -> Row(9, 100, 100, 50)

\* the 10-epoch table skipping level 8
select10_skip8(e) ==
    CASE e = 0 -> Row(1, 50, 0, 0)
      [] e = 1 -> Row(1, 60, 0, 0)
      [] e = 2 -> Row(2, 70, 0, 0)
      [] e = 3 -> Row(3, 80, 0, 0)
      [] e = 4 -> Row(4, 90, 0, 0)
      [] e = 5 -> Row(5, 100, 0, 0)
      [] e = 6 -> Row(6, 100, 100, 10)
      [] e = 7 -> Row(7, 100, 100, 20)
      [] e = 8 -> Row(9, 90, 100, 30)
      [] e = 9 -> Row(9, 95, 100, 40)
      [] OTHER -> Row(9, 100, 100, 50)

\* main, lines 661-715
select10(e) ==
    CASE e = 0 -> Row(1, 50, 0, 0)
      [] e = 1 -> Row(1, 60, 0, 0)
      [] e = 2 -> Row(2, 70, 0, 0)
      [] e = 3 -> Row(3, 80, 0, 0)
      [] e = 4 -> Row(4, 90, 0, 0)
      [] e = 5 -> Row(5, 100, 0, 0)
      [] e = 6 -> Row(6, 100, 100, 10)
      [] e = 7 -> Row(7, 100, 100, 20)
      [] e = 8 -> Row(8, 90, 100, 30)
      [] e = 9 -> Row(9, 95, 100, 40)
      [] OTHER -> Row(9, 100, 100, 50)

\* the 5-epoch table with the switch probability falling back at epoch 4
select5_switchdrop(e) ==
    CASE e = 0 -> Row(1, 50, 0, 0)
      [] e = 1 -> Row(1, 70, 0, 0)
      [] e = 2 -> Row(3, 90, 0, 0)
      [] e = 3 -> Row(6, 100, 100, 30)
      [] e = 4 -> Row(9, 90, 100, 10)
      [] OTHER -> Row(9, 100, 100, 50)

\* main, lines 722-751
select5(e) ==
    CASE e = 0 -> Row(1, 50, 0, 0)
      [] e = 1 -> Row(1, 70, 0, 0)
      [] e = 2 -> Row(3, 90, 0, 0)
      [] e = 3 -> Row(6, 100, 100, 10)
      [] e = 4 -> Row(9, 90, 100, 30)
      [] OTHER -> Row(9, 100, 100, 50)

\* the variant chosen by warmup_epochs >= 10
select_ge10(warmup_epochs, e) ==
    IF warmup_epochs >= 10 THEN select10(e) ELSE select5(e)

\* main, lines 659-660 and 720-721: the variant is chosen by warmup_epochs == 10
select(warmup_epochs, e) ==
    IF warmup_epochs = 10 THEN select10(e) ELSE select5(e)

\* Mixup(...) of lines 462-465 and 756-759: the instance keeps its arguments
Mixup(m) == m

(***************************************************************************)
(* CheckpointPolicy: the conditions of main, lines 778-800.                *)
(***************************************************************************)
\* the save condition without the final-epoch clause
epoch_to_save_nofinal(e, a) ==
    \/ (e + 1) % a.save_ckpt_freq = 0
    \/ e + 1 = 1

\* main, line 778
epoch_to_save(e, a) ==
    \/ (e + 1) % a.save_ckpt_freq = 0
    \/ e + 1 = a.epochs
    \/ e + 1 = 1

\* main, lines 779 and 800
saving(a) == a.output_dir /\ a.save_ckpt

\* the comparison accepting an equal value
IsNewBest_orequal(max_acc, clean_acc1, robust_acc1) == max_acc <= robust_acc1

\* the comparison made on the clean accuracy
IsNewBest_clean(max_acc, clean_acc1, robust_acc1) == max_acc < clean_acc1

\* main, line 798: only test_robust_stats["acc1"] is compared
IsNewBest(max_acc, clean_acc1, robust_acc1) == max_acc < robust_acc1

\* utils.auto_load_model, called at lines 618-620: with a checkpoint in the
\* output directory, training resumes at the epoch after the stored one
auto_load_model(a, latest, start) ==
    IF a.output_dir /\ latest # NoEpoch THEN latest + 1 ELSE start

\* the side-by-side runs and the attack, when they are not the subject
TwIdle == [pc |-> "idle"]
PgdIdle == [pc |-> "idle"]
SuIdle == [pc |-> "idle"]

(***************************************************************************)
(* The state after argument parsing.                                       *)
(***************************************************************************)
\* the command lines considered; a switch that cannot matter keeps its default
\* (warmup_epochs without the curriculum, save_ckpt without an output directory)
ArgSpace ==
    {a \in [use_augwarmup : BOOLEAN,
            warmup_epochs : WarmupChoices,
            epochs : 1..MaxEpochs,
            save_ckpt_freq : 1..MaxFreq,
            output_dir : BOOLEAN,
            save_ckpt : BOOLEAN,
            distributed : BOOLEAN,
            disable_eval : BOOLEAN] :
        /\ ~a.use_augwarmup => a.warmup_epochs = 20
        /\ ~a.output_dir => a.save_ckpt}

\* get_args_parser, lines 144-151: the defaults of cutmix, mixup_prob, mixup_switch_prob
DefaultMix == [mixup_prob |-> 100, cutmix |-> 100, mixup_switch_prob |-> 50]

\* the values main's names hold when the process starts
FreshLocals ==
    /\ mix = DefaultMix
    /\ mixup_fn = Mixup(DefaultMix)
    /\ data_loader_train = 0
    /\ sampler_epoch = [l \in 0..9 |-> 0]
    /\ model_attacker = "none"
    /\ epoch = 0
    /\ steps = <<>>
    /\ train_stats = EmptyStats
    /\ test_stats = EmptyStats
    /\ test_robust_stats = EmptyStats
    /\ max_accuracy = 0
    /\ log_stats = <<>>
    /\ robust_seen = {}
    /\ used_loaders = {}

\* an empty output directory
FreshFiles ==
    /\ latest_slot = NoEpoch
    /\ best_slot = EmptyStats
    /\ log = <<>>

Init ==
    /\ args \in ArgSpace
    /\ start_epoch = 0
    /\ pc = "startup"
    /\ restarts = 0
    /\ FreshLocals
    /\ FreshFiles
    /\ tw = TwIdle
    /\ pgd = PgdIdle
    /\ su = SuIdle

LoopEntry(e) == IF e < args.epochs THEN "curriculum" ELSE "done"

(***************************************************************************)
(* main, lines 238-656: everything before the epoch loop.                  *)
(***************************************************************************)
Startup ==
    /\ pc = "startup"
    /\ IF args.disable_eval
       THEN \* line 311 sets dataset_val = None and line 572 takes len(dataset_val)
            /\ pc' = "error"
            /\ UNCHANGED <<start_epoch, locals>>
       ELSE /\ start_epoch' = auto_load_model(args, latest_slot, start_epoch)
            /\ model_attacker' = "train_attacker"
            /\ max_accuracy' = 0
            /\ test_stats' = EmptyStats
            /\ test_robust_stats' = EmptyStats
            /\ epoch' = start_epoch'
            /\ pc' = LoopEntry(start_epoch')
            /\ UNCHANGED <<mix, mixup_fn, data_loader_train, sampler_epoch, steps,
                           train_stats, log_stats, robust_seen, used_loaders>>
    /\ UNCHANGED <<other, args, restarts, persistent>>

(***************************************************************************)
(* main, lines 658-759: the curriculum selection of this epoch.            *)
(***************************************************************************)
Curriculum ==
    /\ pc = "curriculum"
    /\ IF args.use_augwarmup
       THEN LET sel == select(args.warmup_epochs, epoch)
                m == [mixup_prob |-> sel.mixup_prob, cutmix |-> sel.cutmix,
                      mixup_switch_prob |-> sel.mixup_switch_prob]
            IN /\ data_loader_train' = sel.loader
               /\ mix' = m
               /\ mixup_fn' = Mixup(m)
               /\ steps' = Append(steps, "curriculum")
       ELSE UNCHANGED <<data_loader_train, mix, mixup_fn, steps>>
    /\ pc' = "sampler"
    /\ UNCHANGED <<other, args, start_epoch, restarts, persistent, sampler_epoch, model_attacker,
                   epoch, train_stats, test_stats, test_robust_stats, max_accuracy,
                   log_stats, robust_seen, used_loaders>>

(***************************************************************************)
(* main, lines 761-766: the sampler of the selected loader is told the     *)
(* epoch.                                                                  *)
(***************************************************************************)
SetSamplerEpoch ==
    /\ pc = "sampler"
    /\ IF args.distributed
       THEN /\ sampler_epoch' = [sampler_epoch EXCEPT ![data_loader_train] = epoch]
            /\ steps' = Append(steps, "set_epoch")
       ELSE UNCHANGED <<sampler_epoch, steps>>
    /\ pc' = "attacker"
    /\ UNCHANGED <<other, args, start_epoch, restarts, persistent, mix, mixup_fn,
                   data_loader_train, model_attacker, epoch, train_stats, test_stats,
                   test_robust_stats, max_accuracy, log_stats, robust_seen, used_loaders>>

\* the epoch set-up leaving the attacker of the last evaluation installed
InstallTrainAttacker_skip ==
    /\ pc = "attacker"
    /\ IF args.distributed
       THEN /\ steps' = Append(steps, "set_attacker")
            /\ pc' = "train"
       ELSE /\ pc' = "error"
            /\ UNCHANGED steps
    /\ UNCHANGED <<other, args, start_epoch, restarts, persistent, mix, mixup_fn,
                   data_loader_train, sampler_epoch, model_attacker, epoch, train_stats,
                   test_stats, test_robust_stats, max_accuracy, log_stats, robust_seen,
                   used_loaders>>

(***************************************************************************)
(* main, line 768: model.module.set_attacker(train_attacker).  Only a      *)
(* model wrapped at line 587 has the attribute module; on the bare model   *)
(* the attribute lookup raises and the run ends.                           *)
(***************************************************************************)
InstallTrainAttacker ==
    /\ pc = "attacker"
    /\ IF args.distributed
       THEN /\ model_attacker' = "train_attacker"
            /\ steps' = Append(steps, "set_attacker")
            /\ pc' = "train"
       ELSE /\ pc' = "error"
            /\ UNCHANGED <<model_attacker, steps>>
    /\ UNCHANGED <<other, args, start_epoch, restarts, persistent, mix, mixup_fn,
                   data_loader_train, sampler_epoch, epoch, train_stats, test_stats,
                   test_robust_stats, max_accuracy, log_stats, robust_seen, used_loaders>>

(***************************************************************************)
(* main, lines 769-776: train_one_epoch on the selected loader.            *)
(***************************************************************************)
TrainOneEpoch ==
    /\ pc = "train"
    /\ train_stats' = epoch
    /\ used_loaders' = used_loaders \cup {data_loader_train}
    /\ steps' = Append(steps, "train_one_epoch")
    /\ pc' = "save"
    /\ UNCHANGED <<other, args, start_epoch, restarts, persistent, mix, mixup_fn,
                   data_loader_train, sampler_epoch, model_attacker, epoch, test_stats,
                   test_robust_stats, max_accuracy, log_stats, robust_seen>>

(***************************************************************************)
(* main, lines 778-783: the latest-slot save.                              *)
(***************************************************************************)
SaveLatest ==
    /\ pc = "save"
    /\ IF saving(args) /\ epoch_to_save(epoch, args)
       THEN /\ latest_slot' = epoch
            /\ steps' = Append(steps, "save_model")
       ELSE UNCHANGED <<latest_slot, steps>>
    /\ pc' = "eval_gate"
    /\ UNCHANGED <<other, args, start_epoch, restarts, best_slot, log, mix, mixup_fn,
                   data_loader_train, sampler_epoch, model_attacker, epoch, train_stats,
                   test_stats, test_robust_stats, max_accuracy, log_stats, robust_seen,
                   used_loaders>>

\* the evaluation run in every epoch
EvalGate_everyepoch ==
    /\ pc = "eval_gate"
    /\ IF ~args.disable_eval
       THEN /\ pc' = "eval_clean"
            /\ UNCHANGED log_stats
       ELSE /\ log_stats' = <<[epoch |-> epoch, keys |-> {"train", "epoch", "n_parameters"}]>>
            /\ pc' = "log"
    /\ UNCHANGED <<other, args, start_epoch, restarts, persistent, mix, mixup_fn,
                   data_loader_train, sampler_epoch, model_attacker, epoch, steps,
                   train_stats, test_stats, test_robust_stats, max_accuracy, robust_seen,
                   used_loaders>>

(***************************************************************************)
(* main, line 784 and its else branch, lines 834-837.  data_loader_val is  *)
(* not None in any run that reaches the loop.                              *)
(***************************************************************************)
EvalGate ==
    /\ pc = "eval_gate"
    /\ IF ~args.disable_eval /\ epoch_to_save(epoch, args)
       THEN /\ pc' = "eval_clean"
            /\ UNCHANGED log_stats
       ELSE /\ log_stats' = <<[epoch |-> epoch, keys |-> {"train", "epoch", "n_parameters"}]>>
            /\ pc' = "log"
    /\ UNCHANGED <<other, args, start_epoch, restarts, persistent, mix, mixup_fn,
                   data_loader_train, sampler_epoch, model_attacker, epoch, steps,
                   train_stats, test_stats, test_robust_stats, max_accuracy, robust_seen,
                   used_loaders>>

(***************************************************************************)
(* main, lines 785-789: clean evaluation with a NoOp attacker installed.   *)
(***************************************************************************)
EvalClean ==
    /\ pc = "eval_clean"
    /\ model_attacker' = "NoOpAttacker"
    /\ \E a \in AccValues : test_stats' = a
    /\ steps' = Append(steps, "evaluate_clean")
    /\ pc' = "eval_robust"
    /\ UNCHANGED <<other, args, start_epoch, restarts, persistent, mix, mixup_fn,
                   data_loader_train, sampler_epoch, epoch, train_stats,
                   test_robust_stats, max_accuracy, log_stats, robust_seen, used_loaders>>

(***************************************************************************)
(* main, lines 791-796: robust evaluation with val_attacker installed.     *)
(***************************************************************************)
EvalRobust ==
    /\ pc = "eval_robust"
    /\ model_attacker' = "val_attacker"
    /\ \E a \in AccValues :
          /\ test_robust_stats' = a
          /\ robust_seen' = robust_seen \cup {a}
    /\ steps' = Append(steps, "evaluate_robust")
    /\ pc' = "compare"
    /\ UNCHANGED <<other, args, start_epoch, restarts, persistent, mix, mixup_fn,
                   data_loader_train, sampler_epoch, epoch, train_stats, test_stats,
                   max_accuracy, log_stats, used_loaders>>

(***************************************************************************)
(* main, lines 798-818: the comparison with the running maximum, the       *)
(* best-slot save, and the log record of an evaluated epoch.               *)
(***************************************************************************)
CompareBest ==
    /\ pc = "compare"
    /\ IF IsNewBest(max_accuracy, test_stats, test_robust_stats)
       THEN /\ max_accuracy' = test_robust_stats
            /\ IF saving(args)
               THEN /\ best_slot' = test_robust_stats
                    /\ steps' = Append(steps, "save_best")
               ELSE UNCHANGED <<best_slot, steps>>
       ELSE UNCHANGED <<max_accuracy, best_slot, steps>>
    /\ log_stats' = <<[epoch |-> epoch,
                       keys |-> {"train", "test", "test_robust", "epoch", "n_parameters"}]>>
    /\ pc' = "log"
    /\ UNCHANGED <<other, args, start_epoch, restarts, latest_slot, log, mix, mixup_fn,
                   data_loader_train, sampler_epoch, model_attacker, epoch, train_stats,
                   test_stats, test_robust_stats, robust_seen, used_loaders>>

\* the record appended without looking at the output directory
WriteLog_nodircheck ==
    /\ pc = "log"
    /\ log' = log \o log_stats
    /\ epoch' = epoch + 1
    /\ steps' = <<>>
    /\ pc' = LoopEntry(epoch + 1)
    /\ UNCHANGED <<other, args, start_epoch, restarts, latest_slot, best_slot, mix, mixup_fn,
                   data_loader_train, sampler_epoch, model_attacker, train_stats,
                   test_stats, test_robust_stats, max_accuracy, log_stats, robust_seen,
                   used_loaders>>

(***************************************************************************)
(* main, lines 839-846 and the loop header, line 657.  The process         *)
(* modelled is the one of rank zero, for which is_main_process() holds.    *)
(***************************************************************************)
WriteLog ==
    /\ pc = "log"
    /\ IF args.output_dir
       THEN log' = log \o log_stats
       ELSE UNCHANGED log
    /\ epoch' = epoch + 1
    /\ steps' = <<>>
    /\ pc' = LoopEntry(epoch + 1)
    /\ UNCHANGED <<other, args, start_epoch, restarts, latest_slot, best_slot, mix, mixup_fn,
                   data_loader_train, sampler_epoch, model_attacker, train_stats,
                   test_stats, test_robust_stats, max_accuracy, log_stats, robust_seen,
                   used_loaders>>

(***************************************************************************)
(* The process is killed inside the epoch loop and the same command is     *)
(* launched again: every name of main starts afresh, the files stay.       *)
(***************************************************************************)
LoopPcs == {"curriculum", "sampler", "attacker", "train", "save", "eval_gate",
            "eval_clean", "eval_robust", "compare", "log"}

Relaunch ==
    /\ pc \in LoopPcs
    /\ restarts < MaxRestarts
    /\ restarts' = restarts + 1
    /\ pc' = "startup"
    /\ start_epoch' = 0
    /\ mix' = DefaultMix
    /\ mixup_fn' = Mixup(DefaultMix)
    /\ data_loader_train' = 0
    /\ sampler_epoch' = [l \in 0..9 |-> 0]
    /\ model_attacker' = "none"
    /\ epoch' = 0
    /\ steps' = <<>>
    /\ train_stats' = EmptyStats
    /\ test_stats' = EmptyStats
    /\ test_robust_stats' = EmptyStats
    /\ max_accuracy' = 0
    /\ log_stats' = <<>>
    /\ robust_seen' = {}
    /\ used_loaders' = {}
    /\ UNCHANGED <<other, args, persistent>>

Next ==
    \/ Startup
    \/ Curriculum
    \/ SetSamplerEpoch
    \/ InstallTrainAttacker
    \/ TrainOneEpoch
    \/ SaveLatest
    \/ EvalGate
    \/ EvalClean
    \/ EvalRobust
    \/ CompareBest
    \/ WriteLog

Spec == Init /\ [][Next]_vars

(***************************************************************************)
(* Runs that are killed and relaunched with auto_resume.                   *)
(***************************************************************************)
InitResume ==
    /\ Init
    /\ args.epochs <= MaxResumeEpochs
    /\ args.distributed
    /\ ~args.disable_eval

NextResume ==
    \/ Next
    \/ Relaunch

SpecResume == InitResume /\ [][NextResume]_vars


(***************************************************************************)
(* Properties of the run controller.                                       *)
(***************************************************************************)
InSteps(x) == \E i \in DOMAIN steps : steps[i] = x

\* positions of main after the curriculum selection of the current epoch
AfterSetup == pc \in {"sampler", "attacker", "train", "save", "eval_gate",
                      "eval_clean", "eval_robust", "compare", "log"}
\* positions of main after the latest-slot save of the current epoch
AfterSave == pc \in {"eval_gate", "eval_clean", "eval_robust", "compare", "log"}

\* what the curriculum has selected: the loader and the three args fields
Selected == Row(data_loader_train, mix.mixup_prob, mix.cutmix, mix.mixup_switch_prob)
MixOf(r) == [mixup_prob |-> r.mixup_prob, cutmix |-> r.cutmix,
             mixup_switch_prob |-> r.mixup_switch_prob]

SetMax(S) == CHOOSE x \in S : \A y \in S : y <= x

(***************************************************************************)
(* The checkpoint policy of main, lines 777-804, run twice side by side:   *)
(* both runs have the same arguments and are given the same robust acc1 in *)
(* every evaluated epoch, and each is given a clean acc1 of its own.       *)
(***************************************************************************)
Runs == {1, 2}

TwFreshRun == [test_stats |-> EmptyStats, max_accuracy |-> 0,
               latest_slot |-> NoEpoch, best_slot |-> EmptyStats,
               latest_saves |-> {}, best_saves |-> {}]

InitTwin ==
    /\ args \in ArgSpace
    /\ args.epochs <= MaxTwinEpochs
    /\ args.distributed /\ ~args.disable_eval /\ ~args.use_augwarmup
    /\ start_epoch = 0
    /\ pc = "idle"
    /\ restarts = 0
    /\ FreshLocals
    /\ FreshFiles
    /\ tw = [pc |-> "save", epoch |-> 0, test_robust_stats |-> EmptyStats,
             run |-> [r \in Runs |-> TwFreshRun]]
    /\ pgd = PgdIdle
    /\ su = SuIdle

\* lines 778-784 in both runs
TwSaveLatest ==
    /\ tw.pc = "save"
    /\ tw' = [tw EXCEPT
          !.run = [r \in Runs |->
              IF saving(args) /\ epoch_to_save(tw.epoch, args)
              THEN [tw.run[r] EXCEPT !.latest_slot = tw.epoch,
                                     !.latest_saves = @ \cup {tw.epoch}]
              ELSE tw.run[r]],
          !.pc = IF epoch_to_save(tw.epoch, args) THEN "eval" ELSE "next"]
    /\ UNCHANGED <<args, start_epoch, pc, restarts, locals, persistent, pgd, su>>

\* lines 785-796 in both runs: one robust acc1 for both, a clean acc1 each
TwEvaluate ==
    /\ tw.pc = "eval"
    /\ \E a \in AccValues, c \in [Runs -> AccValues] :
          tw' = [tw EXCEPT
              !.test_robust_stats = a,
              !.run = [r \in Runs |-> [tw.run[r] EXCEPT !.test_stats = c[r]]],
              !.pc = "compare"]
    /\ UNCHANGED <<args, start_epoch, pc, restarts, locals, persistent, pgd, su>>

\* lines 798-803 in both runs
TwCompareBest ==
    /\ tw.pc = "compare"
    /\ tw' = [tw EXCEPT
          !.run = [r \in Runs |->
              IF IsNewBest(tw.run[r].max_accuracy, tw.run[r].test_stats,
                           tw.test_robust_stats)
              THEN IF saving(args)
                   THEN [tw.run[r] EXCEPT !.max_accuracy = tw.test_robust_stats,
                                          !.best_slot = tw.test_robust_stats,
                                          !.best_saves = @ \cup {tw.epoch}]
                   ELSE [tw.run[r] EXCEPT !.max_accuracy = tw.test_robust_stats]
              ELSE tw.run[r]],
          !.pc = "next"]
    /\ UNCHANGED <<args, start_epoch, pc, restarts, locals, persistent, pgd, su>>

\* the loop header, line 657, in both runs
TwNextEpoch ==
    /\ tw.pc = "next"
    /\ tw' = [tw EXCEPT !.epoch = @ + 1,
                        !.pc = IF tw.epoch + 1 < args.epochs THEN "save" ELSE "done"]
    /\ UNCHANGED <<args, start_epoch, pc, restarts, locals, persistent, pgd, su>>

NextTwin ==
    \/ TwSaveLatest
    \/ TwEvaluate
    \/ TwCompareBest
    \/ TwNextEpoch

SpecTwin == InitTwin /\ [][NextTwin]_vars

(***************************************************************************)
(* One attack of the projected-gradient attacker on one image element, in  *)
(* integer units of the normalized image.  The attacker is constructed at  *)
(* main, lines 258-286; its attack method is not part of main_adv.py and   *)
(* is modelled as specified: start clean or uniformly within +-epsilon,    *)
(* then num_iter sign steps, each followed by the clamp of the cumulative  *)
(* perturbation to +-epsilon and of the image to +-image_scale.  An        *)
(* iteration skipped for overflow or a non-finite loss is a zero step.     *)
(***************************************************************************)
ClampTo(x, lo, hi) == IF x < lo THEN lo ELSE IF x > hi THEN hi ELSE x

Abs(x) == IF x < 0 THEN -x ELSE x

\* the step clamping the image to its range only
PgdStep_noprojection(orig, adv, g, step_size, epsilon, image_scale) ==
    ClampTo(adv + step_size * g, -image_scale, image_scale)

\* one iteration: sign step, projection on the epsilon ball, clamp to the range
PgdStep(orig, adv, g, step_size, epsilon, image_scale) ==
    LET delta == ClampTo(adv + step_size * g - orig, -epsilon, epsilon)
    IN ClampTo(orig + delta, -image_scale, image_scale)

IdleArgs == [use_augwarmup |-> TRUE, warmup_epochs |-> 20, epochs |-> 1,
             save_ckpt_freq |-> 1, output_dir |-> FALSE, save_ckpt |-> TRUE,
             distributed |-> TRUE, disable_eval |-> FALSE]

InitPgd ==
    /\ args = IdleArgs
    /\ start_epoch = 0
    /\ pc = "idle"
    /\ restarts = 0
    /\ FreshLocals
    /\ FreshFiles
    /\ tw = TwIdle
    /\ su = SuIdle
    /\ \E sc \in 1..MaxScale, e \in 0..MaxEps, st \in 0..MaxStep, n \in 0..MaxIter :
          \E x \in (-sc)..sc :
              pgd = [pc |-> "start", image_scale |-> sc, epsilon |-> e, step_size |-> st,
                     num_iter |-> n, orig |-> x, adv |-> x, iter |-> 0,
                     random_start |-> FALSE]

\* the start point; with num_iter = 0 the images are returned unchanged
PgdStart ==
    /\ pgd.pc = "start"
    /\ IF pgd.num_iter = 0
       THEN pgd' = [pgd EXCEPT !.pc = "done"]
       ELSE \/ pgd' = [pgd EXCEPT !.pc = "iterate"]
            \/ \E d \in (-pgd.epsilon)..pgd.epsilon :
                  pgd' = [pgd EXCEPT !.adv = pgd.orig + d, !.random_start = TRUE,
                                     !.pc = "iterate"]
    /\ UNCHANGED <<args, start_epoch, pc, restarts, locals, persistent, tw, su>>

\* one iteration; g is the sign of the input gradient, 0 also for a skipped update
PgdIterate ==
    /\ pgd.pc = "iterate"
    /\ pgd.iter < pgd.num_iter
    /\ \E g \in {-1, 0, 1} :
          pgd' = [pgd EXCEPT
              !.adv = PgdStep(pgd.orig, pgd.adv, g, pgd.step_size, pgd.epsilon,
                              pgd.image_scale),
              !.iter = @ + 1]
    /\ UNCHANGED <<args, start_epoch, pc, restarts, locals, persistent, tw, su>>

\* the perturbed image is returned
PgdReturn ==
    /\ pgd.pc = "iterate"
    /\ pgd.iter = pgd.num_iter
    /\ pgd' = [pgd EXCEPT !.pc = "done"]
    /\ UNCHANGED <<args, start_epoch, pc, restarts, locals, persistent, tw, su>>

NextPgd ==
    \/ PgdStart
    \/ PgdIterate
    \/ PgdReturn

SpecPgd == InitPgd /\ [][NextPgd]_vars

\* C1: with warmup_epochs = 10 the selection of epoch 0 is mixup_prob 0.5,
\* cutmix 0.0, switch_prob 0.0, that of epoch 9 is 0.95, 1.0, 0.4, and every
\* epoch from 10 on selects the loader and mixing values of epoch 10.
C1_CurriculumLookup ==
    (args.use_augwarmup /\ args.warmup_epochs = 10 /\ AfterSetup) =>
        /\ epoch = 0 => /\ mix = [mixup_prob |-> 50, cutmix |-> 0, mixup_switch_prob |-> 0]
                        /\ mixup_fn = mix
        /\ epoch = 9 => /\ mix = [mixup_prob |-> 95, cutmix |-> 100, mixup_switch_prob |-> 40]
                        /\ mixup_fn = mix
        /\ epoch >= 10 => /\ Selected = select10(10)
                          /\ mixup_fn = MixOf(select10(10))

C1_Witness ==
    /\ args.use_augwarmup
    /\ args.warmup_epochs = 10
    /\ pc = "train"
    /\ epoch = 11
    /\ Selected = Row(9, 100, 100, 50)

\* C2: outside the comparison step max_accuracy is the maximum of 0 and every
\* robust acc1 evaluated so far in the run, and it never decreases; a step
\* saves the best slot exactly when it is the comparison of an evaluated
\* epoch whose robust acc1 is strictly above the maximum so far, with saving
\* enabled; such a step leaves that robust acc1 in the slot, and no other
\* step changes the slot.
C2_BestTracksMax ==
    /\ [](pc \in {"curriculum", "sampler", "attacker", "train", "save", "eval_gate",
                  "eval_clean", "log", "done"}
            => max_accuracy = SetMax(robust_seen \cup {0}))
    /\ [][max_accuracy' >= max_accuracy]_vars
    /\ [][steps' = Append(steps, "save_best")
            <=> (/\ pc = "compare"
                 /\ args.output_dir /\ args.save_ckpt
                 /\ max_accuracy < test_robust_stats)]_vars
    /\ [][steps' = Append(steps, "save_best")
            => (best_slot' = test_robust_stats /\ best_slot' > best_slot)]_vars
    /\ [][best_slot' # best_slot => steps' = Append(steps, "save_best")]_vars

C2_Witness ==
    /\ pc = "log"
    /\ epoch >= 1
    /\ test_robust_stats = max_accuracy
    /\ max_accuracy >= 1
    /\ best_slot = max_accuracy
    /\ ~InSteps("save_best")

\* what a run of the side-by-side pair decided and holds
Decisions(r) == [max_accuracy |-> tw.run[r].max_accuracy,
                 latest_slot |-> tw.run[r].latest_slot,
                 best_slot |-> tw.run[r].best_slot,
                 latest_saves |-> tw.run[r].latest_saves,
                 best_saves |-> tw.run[r].best_saves]

\* C3: two runs given the same robust acc1 in every evaluated epoch and
\* arbitrary clean acc1 values make the same latest-slot and best-slot saves
\* in every epoch and hold the same best robust accuracy.
C3_CleanNeverGates ==
    tw.pc # "idle" => Decisions(1) = Decisions(2)

C3_Witness ==
    /\ tw.pc = "done"
    /\ tw.epoch >= 2
    /\ tw.run[1].test_stats > tw.test_robust_stats
    /\ tw.run[2].test_stats < tw.test_robust_stats
    /\ tw.run[1].best_saves = {0}
    /\ tw.run[1].latest_saves # {}

\* C4: a relaunched run keeps the best robust accuracy of the interrupted
\* run: the best slot is only ever overwritten by a model whose robust acc1
\* exceeds the one it holds.
C4_ResumeKeepsBest ==
    [][steps' = Append(steps, "save_best") => best_slot' > best_slot]_vars

\* C5: the latest-slot save is made at the end of epoch e exactly when
\* saving is enabled and e+1 is 1, a multiple of save_ckpt_freq, or the
\* epoch count; a completed run with saving enabled holds its final epoch
\* in the latest slot.
C5_LatestSaveEpochs ==
    /\ AfterSave =>
          /\ InSteps("save_model") <=>
                /\ args.output_dir /\ args.save_ckpt
                /\ \/ epoch + 1 = 1
                   \/ (epoch + 1) % args.save_ckpt_freq = 0
                   \/ epoch + 1 = args.epochs
          /\ InSteps("save_model") => latest_slot = epoch
    /\ (pc \in {"curriculum", "sampler", "attacker", "train", "save"})
          => ~InSteps("save_model")
    /\ (pc = "done" /\ args.output_dir /\ args.save_ckpt /\ start_epoch < args.epochs)
          => latest_slot = args.epochs - 1

C5_Witness ==
    /\ pc = "done"
    /\ args.save_ckpt_freq = 2
    /\ args.epochs = 3
    /\ latest_slot = 2

\* C6: when train_one_epoch is entered, and when it returns, the set-up of
\* the epoch has run in the order curriculum selection (if enabled), sampler
\* epoch update of the selected loader, installation of the training
\* attacker; the installed attacker is the training attacker and the mixing
\* configuration is the one set up for the epoch.
C6_EpochSetupOrder ==
    (pc \in {"train", "save"}) =>
        /\ model_attacker = "train_attacker"
        /\ steps = (IF args.use_augwarmup THEN <<"curriculum">> ELSE <<>>)
                   \o <<"set_epoch", "set_attacker">>
                   \o (IF pc = "save" THEN <<"train_one_epoch">> ELSE <<>>)
        /\ sampler_epoch[data_loader_train] = epoch
        /\ IF args.use_augwarmup
           THEN /\ Selected = select(args.warmup_epochs, epoch)
                /\ mixup_fn = mix
           ELSE /\ data_loader_train = 0
                /\ mix = DefaultMix
                /\ mixup_fn = Mixup(DefaultMix)

C6_Witness ==
    /\ pc = "train"
    /\ epoch >= 1
    /\ test_robust_stats # EmptyStats
    /\ model_attacker = "train_attacker"
    /\ args.use_augwarmup

\* C7: the table is the 10-epoch one exactly when warmup_epochs = 10, and
\* from epoch 10 (10-epoch table) or epoch 5 (5-epoch table) on every epoch
\* uses loader 9 with mixup_prob 1.0, cutmix 1.0, switch_prob 0.5.
C7_RampEndsAtFullStrength ==
    (args.use_augwarmup /\ AfterSetup) =>
        /\ args.warmup_epochs = 10 => Selected = select10(epoch)
        /\ args.warmup_epochs # 10 => Selected = select5(epoch)
        /\ (epoch >= (IF args.warmup_epochs = 10 THEN 10 ELSE 5))
              => /\ Selected = Row(9, 100, 100, 50)
                 /\ mixup_fn = [mixup_prob |-> 100, cutmix |-> 100, mixup_switch_prob |-> 50]

C7_Witness ==
    /\ args.use_augwarmup
    /\ args.warmup_epochs = 20
    /\ pc = "train"
    /\ epoch = 5
    /\ data_loader_train = 9

\* the curriculum step from the selection of epoch - 1 to that of epoch
RampStep == pc = "curriculum" /\ args.use_augwarmup /\ epoch > start_epoch
\* the one epoch of each table at which mixup_prob falls back from 1.0 to 0.9
DipEpoch == IF args.warmup_epochs = 10 THEN 8 ELSE 4

\* C8 as stated: from one epoch to the next none of the loader level,
\* mixup_prob, cutmix and switch_prob decreases.
C8_AllNonDecreasing ==
    [][RampStep =>
          /\ data_loader_train' >= data_loader_train
          /\ mix'.mixup_prob >= mix.mixup_prob
          /\ mix'.cutmix >= mix.cutmix
          /\ mix'.mixup_switch_prob >= mix.mixup_switch_prob]_vars

\* C8 amended: from one epoch to the next the loader level, cutmix and
\* switch_prob never decrease; mixup_prob decreases at exactly one epoch of
\* each table (epoch 8 of the 10-epoch table, epoch 4 of the 5-epoch table,
\* from 1.0 to 0.9) and nowhere else.
C8_NonDecreasingButMixupProb ==
    [][RampStep =>
          /\ data_loader_train' >= data_loader_train
          /\ mix'.cutmix >= mix.cutmix
          /\ mix'.mixup_switch_prob >= mix.mixup_switch_prob
          /\ (mix'.mixup_prob < mix.mixup_prob) <=> (epoch = DipEpoch)
          /\ (epoch = DipEpoch) => (mix.mixup_prob = 100 /\ mix'.mixup_prob = 90)]_vars

C8_Witness ==
    /\ args.use_augwarmup
    /\ args.warmup_epochs = 10
    /\ pc = "sampler"
    /\ epoch = 8
    /\ mix.mixup_prob = 90
    /\ data_loader_train = 8

\* C9: a run of the 10-epoch curriculum through its whole ramp has trained
\* on every one of the nine loaders; a run of the 5-epoch curriculum only
\* ever trains on loaders 1, 3, 6 and 9, and on all four through its ramp.
C9_LoadersUsed ==
    args.use_augwarmup =>
        /\ (args.warmup_epochs = 10 /\ pc = "done" /\ start_epoch = 0 /\ args.epochs >= 10)
              => used_loaders = Levels
        /\ args.warmup_epochs # 10 => used_loaders \subseteq {1, 3, 6, 9}
        /\ (args.warmup_epochs # 10 /\ pc = "done" /\ start_epoch = 0 /\ args.epochs >= 5)
              => used_loaders = {1, 3, 6, 9}

C9_Witness ==
    /\ args.use_augwarmup
    /\ args.warmup_epochs = 10
    /\ pc = "done"
    /\ used_loaders = Levels

\* C10: after every iteration of the attack, and in its output, the
\* perturbed element is within epsilon of the original and within
\* [-image_scale, image_scale], from a clean and from a random start.
C10_PgdWithinBudget ==
    (pgd.pc # "idle" /\ (pgd.iter >= 1 \/ pgd.pc = "done")) =>
        /\ Abs(pgd.adv - pgd.orig) <= pgd.epsilon
        /\ Abs(pgd.adv) <= pgd.image_scale

C10_Witness ==
    /\ pgd.pc = "done"
    /\ pgd.random_start
    /\ pgd.num_iter >= 2
    /\ pgd.step_size > pgd.epsilon
    /\ pgd.epsilon >= 1
    /\ Abs(pgd.adv - pgd.orig) = pgd.epsilon
    /\ pgd.adv # pgd.image_scale

(***************************************************************************)
(* The attackers and the gradient scaler of main, lines 251-286, and their *)
(* use: the train attacker is installed on the model (lines 498 and 768),  *)
(* train_one_epoch runs the installed attacker on every batch, and the     *)
(* scaler is handed to auto_load_model, train_one_epoch and save_model.    *)
(* Objects are numbered in the order of their construction.                *)
(***************************************************************************)
\* Python's None where a scaler is expected (loss_scaler=None, line 270)
None ==
    0

\* the object NativeScaler() returns at line 253, the first of the process
NativeScaler ==
    1

\* prob_start_from_clean in hundredths
ProbChoices == {0, 50, 100}

Unbound == [kind |-> "unbound"]

NoOpAttacker == [kind |-> "NoOpAttacker"]

PGDAttacker(num_iter, epsilon, step_size, image_scale, prob_start_from_clean, loss_scaler, use_amp) ==
    [kind |-> "PGDAttacker", num_iter |-> num_iter, epsilon |-> epsilon,
     step_size |-> step_size, image_scale |-> image_scale,
     prob_start_from_clean |-> prob_start_from_clean,
     loss_scaler |-> loss_scaler, use_amp |-> use_amp]

\* a projected-gradient attacker whatever the iteration count
train_attacker_alwayspgd(a, loss_scaler) ==
    PGDAttacker(a.attack_iter, a.attack_epsilon, a.attack_step_size, a.image_scale,
                a.prob_start_from_clean, loss_scaler, a.use_amp)

\* the attacker given a scaler of its own
train_attacker_ownscaler(a, loss_scaler) ==
    IF a.attack_iter = 0
    THEN NoOpAttacker
    ELSE PGDAttacker(a.attack_iter, a.attack_epsilon, a.attack_step_size,
                     a.image_scale, a.prob_start_from_clean, loss_scaler + 1, a.use_amp)

\* lines 255-264
train_attacker(a, loss_scaler) ==
    IF a.attack_iter = 0
    THEN NoOpAttacker
    ELSE PGDAttacker(a.attack_iter, a.attack_epsilon, a.attack_step_size,
                     a.image_scale, a.prob_start_from_clean, loss_scaler, a.use_amp)

\* lines 265-271
val_attacker(image_scale) == PGDAttacker(5, 4, 1, image_scale, 0, None, FALSE)

AttackArgs ==
    [attack_iter : 0..MaxIter,
     attack_epsilon : 0..MaxEps,
     attack_step_size : 0..MaxStep,
     image_scale : 1..MaxScale,
     prob_start_from_clean : ProbChoices,
     use_amp : BOOLEAN,
     output_dir : BOOLEAN,
     save_ckpt : BOOLEAN,
     save_ckpt_freq : {1},
     epochs : {1}]

InitAttack ==
    /\ args = IdleArgs
    /\ start_epoch = 0
    /\ pc = "idle"
    /\ restarts = 0
    /\ FreshLocals
    /\ FreshFiles
    /\ tw = TwIdle
    /\ pgd = PgdIdle
    /\ \E a \in AttackArgs :
          su = [pc |-> "attackers", args |-> a, loss_scaler |-> None,
                train_attacker |-> Unbound, val_attacker |-> Unbound,
                model_attacker |-> Unbound, restored_scaler |-> None,
                step_scaler |-> None, step_amp |-> FALSE, saved_scaler |-> None]

AttackUnchanged == <<args, start_epoch, pc, restarts, locals, persistent, tw>>

\* lines 251-286
BuildAttackers ==
    /\ su.pc = "attackers"
    /\ su' = [su EXCEPT
          !.loss_scaler = NativeScaler,
          !.train_attacker = train_attacker(su.args, NativeScaler),
          !.val_attacker = val_attacker(su.args.image_scale),
          !.pc = "install"]
    /\ UNCHANGED <<AttackUnchanged, pgd>>

\* lines 497-498, in a training run
InstallAtStartup ==
    /\ su.pc = "install"
    /\ su' = [su EXCEPT !.model_attacker = su.train_attacker, !.pc = "auto_load"]
    /\ UNCHANGED <<AttackUnchanged, pgd>>

\* lines 618-620: a checkpoint's scaler state is loaded into the object passed
AutoLoad ==
    /\ su.pc = "auto_load"
    /\ su' = [su EXCEPT !.restored_scaler = su.loss_scaler, !.pc = "train"]
    /\ UNCHANGED <<AttackUnchanged, pgd>>

\* lines 768-776: the train attacker is installed again and train_one_epoch gets
\* the scaler and use_amp; the installed attacker is then run on an element x
\* of the clean batch
TrainBatch ==
    /\ su.pc = "train"
    /\ \E x \in (-su.args.image_scale)..su.args.image_scale :
          LET att == su.train_attacker
          IN pgd' = IF att.kind = "NoOpAttacker"
                    THEN [pc |-> "noop", orig |-> x, adv |-> x]
                    ELSE [pc |-> "start", image_scale |-> att.image_scale,
                          epsilon |-> att.epsilon, step_size |-> att.step_size,
                          num_iter |-> att.num_iter, orig |-> x, adv |-> x,
                          iter |-> 0, random_start |-> FALSE]
    /\ su' = [su EXCEPT !.model_attacker = su.train_attacker,
                        !.step_scaler = su.loss_scaler,
                        !.step_amp = su.args.use_amp,
                        !.pc = "attacking"]
    /\ UNCHANGED AttackUnchanged

\* NoOpAttacker.attack, as specified: the images are returned unchanged
NoOpAttack ==
    /\ pgd.pc = "noop"
    /\ pgd' = [pgd EXCEPT !.adv = pgd.orig, !.pc = "done"]
    /\ UNCHANGED <<AttackUnchanged, su>>

\* lines 778-783 at the end of epoch 0: with an output directory and save_ckpt
\* the scaler is stored in the checkpoint
SaveModel ==
    /\ su.pc = "attacking"
    /\ pgd.pc = "done"
    /\ su' = [su EXCEPT
          !.saved_scaler = IF saving(su.args) /\ epoch_to_save(0, su.args)
                           THEN su.loss_scaler ELSE @,
          !.pc = "done"]
    /\ UNCHANGED <<AttackUnchanged, pgd>>

NextAttack ==
    \/ BuildAttackers
    \/ InstallAtStartup
    \/ AutoLoad
    \/ TrainBatch
    \/ NoOpAttack
    \/ PgdStart
    \/ PgdIterate
    \/ PgdReturn
    \/ SaveModel

SpecAttack == InitAttack /\ [][NextAttack]_vars

\* C11: with attack_iter = 0 the train attacker, and the attacker installed
\* on the model, is the no-op attacker, and the batch element fed to the
\* model equals the clean one, whatever epsilon, step size and
\* prob_start_from_clean are.
C11_NoAttackFeedsClean ==
    (su.pc \notin {"idle", "attackers"} /\ su.args.attack_iter = 0) =>
        /\ su.train_attacker = NoOpAttacker
        /\ su.pc # "install" => su.model_attacker = NoOpAttacker
        /\ pgd.pc # "idle" => pgd.adv = pgd.orig

C11_Witness ==
    /\ su.pc = "done"
    /\ su.args.attack_iter = 0
    /\ su.args.attack_epsilon >= 1
    /\ su.args.attack_step_size >= 1
    /\ su.args.prob_start_from_clean = 0
    /\ su.model_attacker = NoOpAttacker
    /\ pgd.pc = "done"
    /\ pgd.orig # 0
    /\ pgd.adv = pgd.orig

\* the scaler objects some part of the run holds
ScalersHeld ==
    ({su.loss_scaler, su.restored_scaler, su.step_scaler, su.saved_scaler}
        \cup (IF su.train_attacker.kind = "PGDAttacker"
              THEN {su.train_attacker.loss_scaler} ELSE {})) \ {None}

\* C12: a projected-gradient train attacker holds the scaler object that
\* train_one_epoch is given and that checkpoints store and restore, no other
\* scaler exists, and the attacker's use_amp is that of the training step.
C12_OneSharedScaler ==
    (su.pc \notin {"idle", "attackers"} /\ su.train_attacker.kind = "PGDAttacker") =>
        /\ su.train_attacker.loss_scaler = su.loss_scaler
        /\ su.train_attacker.use_amp = su.args.use_amp
        /\ ScalersHeld = {su.loss_scaler}
        /\ su.pc \in {"attacking", "done"} =>
              /\ su.step_scaler = su.train_attacker.loss_scaler
              /\ su.step_amp = su.train_attacker.use_amp
              /\ su.restored_scaler = su.train_attacker.loss_scaler
        /\ su.pc = "done" =>
              su.saved_scaler = IF su.args.output_dir /\ su.args.save_ckpt
                                THEN su.train_attacker.loss_scaler ELSE None

C12_Witness ==
    /\ su.pc = "done"
    /\ su.train_attacker.kind = "PGDAttacker"
    /\ su.train_attacker.use_amp
    /\ su.step_amp
    /\ su.saved_scaler = NativeScaler
    /\ su.train_attacker.loss_scaler = NativeScaler
    /\ pgd.pc = "done"
    /\ pgd.adv # pgd.orig

(***************************************************************************)
(* The learning-rate scaling and the schedules of main, lines 545-604, and *)
(* the step indices of the epoch loop, lines 657 and 769-776.  Rates are   *)
(* integers in a unit small enough for the division by 1024 to be exact.   *)
(* Evaluation is enabled, so line 572 passes.                              *)
(***************************************************************************)
MaxSchedEpochs ==
    3

MaxTrainLen ==
    8

MaxLr ==
    2

\* the batch size the configured rates refer to, lines 558-560
ReferenceBatch ==
    1024

BatchChoices == {256, 512}

\* dataset sizes, multiples of 384 images
TrainLens == {384 * n : n \in 1..MaxTrainLen}

\* the rescaling with a reference batch of 256
LinearScale_ref256(rate, total_batch_size) == (rate * total_batch_size) \div 256

\* lines 558-560: rate * total_batch_size / 1024.0
LinearScale(rate, total_batch_size) == (rate * total_batch_size) \div ReferenceBatch

\* the first step of the following epoch
start_steps_nextepoch(e, num_training_steps_per_epoch) ==
    (e + 1) * num_training_steps_per_epoch

\* line 772: start_steps=epoch * num_training_steps_per_epoch
start_steps(e, num_training_steps_per_epoch) == e * num_training_steps_per_epoch

\* utils.cosine_scheduler, as specified: one value per global step, computed
\* from the base, final and warmup start values
cosine_scheduler(base_value, final_value, epochs, niter_per_ep, start_warmup_value) ==
    [len |-> epochs * niter_per_ep, base_value |-> base_value,
     final_value |-> final_value, start_warmup_value |-> start_warmup_value]

SchedArgs ==
    {a \in [batch_size : BatchChoices,
            update_freq : 1..2,
            world_size : 1..2,
            scaled_lr : BOOLEAN,
            lr : {ReferenceBatch * k : k \in 1..MaxLr},
            warmup_lr : {0, ReferenceBatch},
            min_lr : {ReferenceBatch},
            train_len : TrainLens,
            epochs : 1..MaxSchedEpochs,
            start_epoch : 0..MaxSchedEpochs] :
        a.start_epoch <= a.epochs}

NoSchedule == [len |-> 0, base_value |-> 0, final_value |-> 0, start_warmup_value |-> 0]

InitSched ==
    /\ args = IdleArgs
    /\ start_epoch = 0
    /\ pc = "idle"
    /\ restarts = 0
    /\ FreshLocals
    /\ FreshFiles
    /\ tw = TwIdle
    /\ pgd = PgdIdle
    /\ \E a \in SchedArgs :
          su = [pc |-> "lr_scale", conf |-> a, args |-> a, total_batch_size |-> 0,
                num_training_steps_per_epoch |-> 0, rescales |-> 0,
                lr_schedule_values |-> NoSchedule, epoch |-> a.start_epoch,
                start_steps |-> 0, i |-> 0, it |-> 0, steps_run |-> 0]

SchedUnchanged == <<args, start_epoch, pc, restarts, locals, persistent, tw, pgd>>

\* lines 545-566
ScaleLr ==
    /\ su.pc = "lr_scale"
    /\ LET a == su.args
           total == a.batch_size * a.update_freq * a.world_size
       IN su' = [su EXCEPT
              !.total_batch_size = total,
              !.num_training_steps_per_epoch = a.train_len \div total,
              !.args = IF a.scaled_lr
                       THEN [a EXCEPT !.warmup_lr = LinearScale(a.warmup_lr, total),
                                      !.lr = LinearScale(a.lr, total),
                                      !.min_lr = LinearScale(a.min_lr, total)]
                       ELSE a,
              !.rescales = IF a.scaled_lr THEN @ + 1 ELSE @,
              !.pc = "schedules"]
    /\ UNCHANGED SchedUnchanged

\* lines 595-604; max() of an empty weight-decay schedule raises ValueError
BuildSchedules ==
    /\ su.pc = "schedules"
    /\ LET a == su.args
           sched == cosine_scheduler(a.lr, a.min_lr, a.epochs,
                                     su.num_training_steps_per_epoch, a.warmup_lr)
       IN su' = [su EXCEPT
              !.lr_schedule_values = sched,
              !.pc = IF sched.len = 0 THEN "error" ELSE "loop"]
    /\ UNCHANGED SchedUnchanged

\* lines 657 and 769-776: the next epoch's train_one_epoch is called
SchedEpoch ==
    /\ su.pc = "loop"
    /\ IF su.epoch < su.args.epochs
       THEN su' = [su EXCEPT
                !.start_steps = start_steps(su.epoch, su.num_training_steps_per_epoch),
                !.i = 0,
                !.pc = "steps"]
       ELSE su' = [su EXCEPT !.pc = "done"]
    /\ UNCHANGED SchedUnchanged

\* train_one_epoch, as specified: update i of the epoch reads schedule entry
\* start_steps + i
SchedStep ==
    /\ su.pc = "steps"
    /\ su.i < su.num_training_steps_per_epoch
    /\ LET it == su.start_steps + su.i
       IN IF it >= su.lr_schedule_values.len
          THEN su' = [su EXCEPT !.it = it, !.pc = "error"]
          ELSE su' = [su EXCEPT !.it = it, !.i = @ + 1, !.steps_run = @ + 1]
    /\ UNCHANGED SchedUnchanged

\* train_one_epoch returns and the loop moves on
SchedEpochEnd ==
    /\ su.pc = "steps"
    /\ su.i = su.num_training_steps_per_epoch
    /\ su' = [su EXCEPT !.epoch = @ + 1, !.pc = "loop"]
    /\ UNCHANGED SchedUnchanged

NextSched ==
    \/ ScaleLr
    \/ BuildSchedules
    \/ SchedEpoch
    \/ SchedStep
    \/ SchedEpochEnd

SpecSched == InitSched /\ [][NextSched]_vars

SchedBuilt == su.pc \in {"loop", "steps", "done"}

\* the total batch size of the run
TotalBatch == su.conf.batch_size * su.conf.update_freq * su.conf.world_size

\* the rates of s are the configured rates times num / den
RatesAre(s, num, den) ==
    /\ s.base_value * den = su.conf.lr * num
    /\ s.start_warmup_value * den = su.conf.warmup_lr * num
    /\ s.final_value * den = su.conf.min_lr * num

\* C13 as stated: whenever the total batch size differs from 1024, the rates
\* fed to the schedule generator are the configured rates times total / 1024.
C13_RescaledWheneverBatchDiffers ==
    (SchedBuilt /\ TotalBatch # 1024) =>
        RatesAre(su.lr_schedule_values, TotalBatch, 1024)

\* C13, amended: with scaled_lr set the rates fed to the schedule generator
\* are the configured rates times total / 1024, without it they are the
\* configured rates; the rescaling happens at most once, before the schedule
\* is generated, and args keeps the fed rates in every epoch.
C13_RescaledOnceIfScaledLr ==
    SchedBuilt =>
        /\ su.conf.scaled_lr => RatesAre(su.lr_schedule_values, TotalBatch, 1024)
        /\ ~su.conf.scaled_lr => RatesAre(su.lr_schedule_values, 1, 1)
        /\ su.rescales = IF su.conf.scaled_lr THEN 1 ELSE 0
        /\ su.args.lr = su.lr_schedule_values.base_value
        /\ su.args.warmup_lr = su.lr_schedule_values.start_warmup_value
        /\ su.args.min_lr = su.lr_schedule_values.final_value

C13_Witness ==
    /\ su.pc = "done"
    /\ su.conf.scaled_lr
    /\ TotalBatch = 512
    /\ su.epoch - su.conf.start_epoch >= 2
    /\ su.steps_run >= 2
    /\ su.conf.warmup_lr # 0
    /\ su.lr_schedule_values.base_value * 2 = su.conf.lr

\* C18: train_one_epoch of epoch e is handed start step e * steps_per_epoch,
\* with steps_per_epoch = train_len div (batch_size * update_freq * world
\* size), and every index start + i it reads is below epochs *
\* steps_per_epoch, the length of the schedule.
C18_StepIndexInRange ==
    /\ su.pc # "error" \/ su.lr_schedule_values.len = 0
    /\ su.pc = "steps" =>
          /\ su.num_training_steps_per_epoch = su.conf.train_len \div TotalBatch
          /\ su.start_steps = su.epoch * (su.conf.train_len \div TotalBatch)
          /\ su.it < su.conf.epochs * (su.conf.train_len \div TotalBatch)
          /\ su.lr_schedule_values.len = su.conf.epochs * (su.conf.train_len \div TotalBatch)
          /\ su.i >= 1 => su.it = su.epoch * (su.conf.train_len \div TotalBatch) + su.i - 1

C18_Witness ==
    /\ su.pc = "steps"
    /\ su.conf.start_epoch = 1
    /\ su.epoch = su.conf.epochs - 1
    /\ su.epoch >= 2
    /\ su.i = su.num_training_steps_per_epoch
    /\ su.i >= 2
    /\ su.conf.train_len % TotalBatch # 0
    /\ su.it = su.lr_schedule_values.len - 1

(***************************************************************************)
(* The workers of a distributed run.  Every worker runs main with its own  *)
(* rank; the collective operations of training keep the workers in step:   *)
(* no worker trains epoch e before every worker has reached epoch e.       *)
(* Modelled per worker: the loggers of lines 360-369 and their use in the  *)
(* epoch loop, lines 763-766 and 806-849.  log.txt is shared.              *)
(***************************************************************************)
MaxWorkers ==
    3

MaxRankEpochs ==
    2

\* a tensorboard writer for every worker with a log directory
owns_log_writer_anyrank(global_rank, a) == a.log_dir

\* line 360
owns_log_writer(global_rank, a) == global_rank = 0 /\ a.log_dir

\* line 366
owns_wandb_logger(global_rank, a) == global_rank = 0 /\ a.enable_wandb

\* utils.get_rank, as specified: the worker's rank
get_rank(r) == r

\* utils.is_main_process, as specified: rank zero
is_main_process(r) == get_rank(r) = 0

RankArgs ==
    [log_dir : BOOLEAN, enable_wandb : BOOLEAN, output_dir : BOOLEAN,
     wandb_ckpt : BOOLEAN, save_ckpt : BOOLEAN,
     epochs : 1..MaxRankEpochs, save_ckpt_freq : 1..MaxFreq]

FreshWorker == [pc |-> "setup", epoch |-> 0, global_rank |-> 0, log_writer |-> FALSE,
                wandb_logger |-> FALSE, writer_calls |-> 0, wandb_calls |-> 0]

InitRanks ==
    /\ args = IdleArgs
    /\ start_epoch = 0
    /\ pc = "idle"
    /\ restarts = 0
    /\ FreshLocals
    /\ FreshFiles
    /\ tw = TwIdle
    /\ pgd = PgdIdle
    /\ \E a \in RankArgs, n \in 1..MaxWorkers :
          su = [pc |-> "workers", args |-> a, world_size |-> n,
                w |-> [r \in 0..(n - 1) |-> FreshWorker], file |-> <<>>]

RanksUnchanged == <<args, start_epoch, pc, restarts, locals, persistent, tw, pgd>>

Workers == DOMAIN su.w

\* lines 315 and 360-369
RankSetup(r) ==
    /\ su.w[r].pc = "setup"
    /\ su' = [su EXCEPT !.w[r] = [@ EXCEPT
              !.global_rank = get_rank(r),
              !.log_writer = owns_log_writer(get_rank(r), su.args),
              !.wandb_logger = owns_wandb_logger(get_rank(r), su.args),
              !.pc = IF 0 < su.args.epochs THEN "set_step" ELSE "finish"]]
    /\ UNCHANGED RanksUnchanged

\* lines 761-766: set_step and set_steps on the worker's loggers, before the
\* worker meets the others in train_one_epoch
RankSetStep(r) ==
    /\ su.w[r].pc = "set_step"
    /\ su' = [su EXCEPT !.w[r] = [@ EXCEPT
              !.writer_calls = IF su.w[r].log_writer THEN @ + 1 ELSE @,
              !.wandb_calls = IF su.w[r].wandb_logger THEN @ + 1 ELSE @,
              !.pc = "train"]]
    /\ UNCHANGED RanksUnchanged

\* lines 768-776: the epoch is trained together with the other workers
RankTrain(r) ==
    /\ su.w[r].pc = "train"
    /\ \A q \in Workers : su.w[q].pc # "setup" /\ su.w[q].epoch >= su.w[r].epoch
    /\ su' = [su EXCEPT !.w[r] = [@ EXCEPT !.pc = "eval"]]
    /\ UNCHANGED RanksUnchanged

\* lines 784-837: in an evaluated epoch the worker's log writer gets the six
\* updates of lines 807-812
RankEval(r) ==
    /\ su.w[r].pc = "eval"
    /\ su' = [su EXCEPT !.w[r] = [@ EXCEPT
              !.writer_calls = IF epoch_to_save(su.w[r].epoch, su.args) /\ su.w[r].log_writer
                               THEN @ + 6 ELSE @,
              !.pc = "log"]]
    /\ UNCHANGED RanksUnchanged

\* lines 839-846, then the loop moves on
RankWriteLog(r) ==
    /\ su.w[r].pc = "log"
    /\ LET me == su.w[r]
           writes == su.args.output_dir /\ is_main_process(r)
       IN su' = [su EXCEPT
              !.file = IF writes THEN Append(@, [rank |-> r, epoch |-> me.epoch]) ELSE @,
              !.w[r] = [@ EXCEPT
                  !.writer_calls = IF writes /\ me.log_writer THEN @ + 1 ELSE @,
                  !.wandb_calls = IF me.wandb_logger THEN @ + 1 ELSE @,
                  !.epoch = @ + 1,
                  !.pc = IF me.epoch + 1 < su.args.epochs THEN "set_step" ELSE "finish"]]
    /\ UNCHANGED RanksUnchanged

\* lines 848-849
RankFinish(r) ==
    /\ su.w[r].pc = "finish"
    /\ su' = [su EXCEPT !.w[r] = [@ EXCEPT
              !.wandb_calls = IF /\ su.w[r].wandb_logger
                                 /\ su.args.wandb_ckpt
                                 /\ su.args.save_ckpt
                                 /\ su.args.output_dir
                              THEN @ + 1 ELSE @,
              !.pc = "done"]]
    /\ UNCHANGED RanksUnchanged

NextRanks ==
    \/ \E r \in Workers : RankSetup(r)
    \/ \E r \in Workers : RankSetStep(r)
    \/ \E r \in Workers : RankTrain(r)
    \/ \E r \in Workers : RankEval(r)
    \/ \E r \in Workers : RankWriteLog(r)
    \/ \E r \in Workers : RankFinish(r)

SpecRanks == InitRanks /\ [][NextRanks]_vars

\* C14: in a run of N workers no worker of rank other than zero owns a
\* tensorboard log writer or a tracker logger, calls one, or appends a
\* record to the log file, in any epoch.
C14_OnlyRankZeroLogs ==
    su.pc = "workers" =>
        /\ \A r \in Workers \ {0} :
              /\ ~su.w[r].log_writer
              /\ ~su.w[r].wandb_logger
              /\ su.w[r].writer_calls = 0
              /\ su.w[r].wandb_calls = 0
        /\ \A i \in 1..Len(su.file) : su.file[i].rank = 0

C14_Witness ==
    /\ su.pc = "workers"
    /\ su.world_size >= 3
    /\ su.args.log_dir /\ su.args.enable_wandb /\ su.args.output_dir
    /\ \A r \in Workers : su.w[r].pc = "done" /\ su.w[r].epoch = 2
    /\ Len(su.file) = 2
    /\ su.args.wandb_ckpt /\ su.args.save_ckpt
    /\ su.w[0].writer_calls = 16
    /\ su.w[0].wandb_calls = 5

\* the keys of a record of an evaluated epoch and of any other epoch
FullKeys == {"train", "test", "test_robust", "epoch", "n_parameters"}
TrainKeys == {"train", "epoch", "n_parameters"}

\* one record per completed epoch, in the order of the epochs
OneRecordPerEpoch ==
    /\ Len(log) = epoch - start_epoch
    /\ \A i \in 1..Len(log) : log[i].epoch = start_epoch + i - 1

\* C15 as stated: with an output directory one record is appended per
\* completed epoch, in increasing epoch order, and every record carries the
\* train, test and test_robust statistics, the epoch and n_parameters.
C15_EveryRecordFull ==
    args.output_dir =>
        /\ OneRecordPerEpoch
        /\ \A i \in 1..Len(log) : log[i].keys = FullKeys

\* C15, amended: with an output directory one record is appended per
\* completed epoch, in increasing epoch order; the record of an evaluated
\* epoch (first, multiple of save_ckpt_freq, last) carries the train, test
\* and test_robust statistics, the epoch and n_parameters, the record of any
\* other epoch the train statistics, the epoch and n_parameters only.
\* Without an output directory nothing is appended.
C15_RecordPerEpochByKind ==
    /\ args.output_dir =>
          /\ OneRecordPerEpoch
          /\ \A i \in 1..Len(log) :
                log[i].keys = IF \/ log[i].epoch + 1 = 1
                                 \/ (log[i].epoch + 1) % args.save_ckpt_freq = 0
                                 \/ log[i].epoch + 1 = args.epochs
                              THEN FullKeys ELSE TrainKeys
    /\ ~args.output_dir => log = <<>>

C15_Witness ==
    /\ pc = "done"
    /\ args.output_dir
    /\ args.save_ckpt_freq = 2
    /\ Len(log) = 5
    /\ log[3].keys = TrainKeys
    /\ log[4].keys = FullKeys
    /\ log[5].keys = FullKeys

\* what main has done in the current epoch after train_one_epoch returned
AfterTrain ==
    LET at == CHOOSE i \in DOMAIN steps : steps[i] = "train_one_epoch"
    IN SubSeq(steps, at + 1, Len(steps))

\* the current epoch is one the checkpoint policy selects
PolicySelects ==
    \/ epoch + 1 = 1
    \/ (epoch + 1) % args.save_ckpt_freq = 0
    \/ epoch + 1 = args.epochs

\* C19: in an epoch the checkpoint policy selects, main performs, in this
\* order, the latest-slot save (when saving is enabled), the clean
\* evaluation with the no-op attacker installed, the robust evaluation with
\* val_attacker installed (projected gradient, 5 iterations, epsilon 4, step
\* size 1, no scaler, full precision) and the comparison, which alone may
\* save the best slot; in any other epoch nothing follows train_one_epoch
\* and neither the running maximum nor the best slot changes.
C19_EvalOnlyWhenSelected ==
    /\ [](/\ pc = "log" =>
                IF PolicySelects
                THEN \E best \in {<<>>, <<"save_best">>} :
                        AfterTrain = (IF args.output_dir /\ args.save_ckpt
                                      THEN <<"save_model">> ELSE <<>>)
                                     \o <<"evaluate_clean", "evaluate_robust">> \o best
                ELSE AfterTrain = <<>>
          /\ pc = "eval_robust" =>
                model_attacker = "NoOpAttacker" /\ PolicySelects
          /\ pc = "compare" =>
                /\ model_attacker = "val_attacker"
                /\ PolicySelects
                /\ \A sc \in 1..MaxScale :
                      val_attacker(sc) =
                          [kind |-> "PGDAttacker", num_iter |-> 5, epsilon |-> 4,
                           step_size |-> 1, image_scale |-> sc,
                           prob_start_from_clean |-> 0, loss_scaler |-> None,
                           use_amp |-> FALSE])
    /\ [][(pc \in LoopPcs /\ ~PolicySelects) =>
              (max_accuracy' = max_accuracy /\ best_slot' = best_slot)]_vars

C19_Witness ==
    /\ pc = "log"
    /\ ~PolicySelects
    /\ epoch = 2
    /\ AfterTrain = <<>>
    /\ max_accuracy = 1
    /\ best_slot = 1
    /\ test_robust_stats = 0

\* C20: with disable_eval set, a distributed run trains every epoch, never
\* evaluates, never saves the best slot, and with an output directory
\* appends one record per epoch that carries the train statistics, the
\* epoch and n_parameters only.
C20_DisableEvalTrainsOnly ==
    (args.disable_eval /\ args.distributed) =>
        /\ pc # "error"
        /\ pc = "done" => epoch = args.epochs
        /\ ~InSteps("evaluate_clean") /\ ~InSteps("evaluate_robust")
        /\ best_slot = EmptyStats
        /\ args.output_dir =>
              /\ OneRecordPerEpoch
              /\ \A i \in 1..Len(log) : log[i].keys = TrainKeys

(***************************************************************************)
(* Model creation and fine-tune loading, main lines 466-526, then the      *)
(* optimizer and the schedules, lines 582-604, then the rest of main.  A   *)
(* model name is the sequence of its characters; a state dict maps the     *)
(* keys it has to the shape of their tensors.                              *)
(***************************************************************************)
ModelNames ==
    {<<"s", "w", "i", "n", "_", "t">>,
     <<"d", "e", "i", "t", "_", "s">>,
     <<"c", "o", "n", "v", "n", "e", "x", "t", "_", "t">>,
     <<"p", "o", "o", "l", "f", "o", "r", "m", "e", "r", "_", "s">>,
     <<"r", "e", "s", "n", "e", "t">>,
     <<"s", "w">>,
     <<"x", "s", "w", "i", "n">>,
     <<"c", "o", "n", "v", "n", "e", "x", "_", "t">>,
     <<"v", "i", "t", "_", "d", "e", "i", "t">>}

\* str.startswith
StartsWith(name, prefix) ==
    /\ Len(name) >= Len(prefix)
    /\ SubSeq(name, 1, Len(prefix)) = prefix

\* a name of no known family built like a convnext
model_family_fallback(name) ==
    IF StartsWith(name, <<"s", "w", "i", "n">>) \/ StartsWith(name, <<"d", "e", "i", "t">>)
    THEN "swin_deit"
    ELSE IF StartsWith(name, <<"p", "o", "o", "l", "f", "o", "r", "m", "e", "r">>)
    THEN "poolformer"
    ELSE "convnext"

\* the branch of lines 466-492 that creates the model, "raise" for the last
model_family(name) ==
    IF StartsWith(name, <<"s", "w", "i", "n">>) \/ StartsWith(name, <<"d", "e", "i", "t">>)
    THEN "swin_deit"
    ELSE IF StartsWith(name, <<"c", "o", "n", "v", "n", "e", "x", "t">>)
    THEN "convnext"
    ELSE IF StartsWith(name, <<"p", "o", "o", "l", "f", "o", "r", "m", "e", "r">>)
    THEN "poolformer"
    ELSE "raise"

Keys == {"head.weight", "head.bias", "stem.weight"}
Shapes == {1, 2}

\* the state dicts over Keys
StateDicts == UNION {[ks -> Shapes] : ks \in SUBSET Keys}

EmptyDict == [k \in {} |-> 1]

Without(d, k) == [j \in DOMAIN d \ {k} |-> d[j]]

\* lines 522-525: the loop over the head keys; state_dict[k] raises KeyError
\* when the model has no such key
RECURSIVE RemoveMismatchedHead(_, _, _)
RemoveMismatchedHead(checkpoint_model, state_dict, ks) ==
    IF ks = <<>>
    THEN [raised |-> "none", checkpoint_model |-> checkpoint_model]
    ELSE LET k == Head(ks)
         IN IF k \in DOMAIN checkpoint_model
            THEN IF k \notin DOMAIN state_dict
                 THEN [raised |-> "KeyError", checkpoint_model |-> checkpoint_model]
                 ELSE IF checkpoint_model[k] # state_dict[k]
                      THEN RemoveMismatchedHead(Without(checkpoint_model, k), state_dict,
                                                Tail(ks))
                      ELSE RemoveMismatchedHead(checkpoint_model, state_dict, Tail(ks))
            ELSE RemoveMismatchedHead(checkpoint_model, state_dict, Tail(ks))

\* utils.load_state_dict, as specified: the entries that fit the model are
\* loaded, the others are reported and skipped
load_state_dict(state_dict, checkpoint_model) ==
    {k \in DOMAIN state_dict \cap DOMAIN checkpoint_model :
        checkpoint_model[k] = state_dict[k]}

ModelArgs ==
    {a \in [model : ModelNames, finetune : BOOLEAN,
            checkpoint_model : StateDicts, state_dict : StateDicts] :
        ~a.finetune => a.checkpoint_model = EmptyDict}

InitModel ==
    /\ args = [IdleArgs EXCEPT !.output_dir = TRUE]
    /\ start_epoch = 0
    /\ pc = "idle"
    /\ restarts = 0
    /\ FreshLocals
    /\ FreshFiles
    /\ tw = TwIdle
    /\ pgd = PgdIdle
    /\ \E a \in ModelArgs :
          su = [pc |-> "create_model", args |-> a, family |-> "none",
                checkpoint_model |-> a.checkpoint_model, loaded |-> {},
                raised |-> "none", optimizer |-> FALSE, schedules |-> FALSE]

ModelUnchanged == <<args, start_epoch, pc, restarts, locals, persistent, tw, pgd>>

\* lines 466-503
CreateModel ==
    /\ su.pc = "create_model"
    /\ LET f == model_family(su.args.model)
       IN su' = IF f = "raise"
                THEN [su EXCEPT !.raised = "AssertionError", !.pc = "error"]
                ELSE [su EXCEPT !.family = f, !.pc = "finetune"]
    /\ UNCHANGED ModelUnchanged

\* lines 505-526
Finetune ==
    /\ su.pc = "finetune"
    /\ IF su.args.finetune
       THEN LET r == RemoveMismatchedHead(su.checkpoint_model, su.args.state_dict,
                                          <<"head.weight", "head.bias">>)
            IN su' = IF r.raised # "none"
                     THEN [su EXCEPT !.raised = r.raised, !.pc = "error"]
                     ELSE [su EXCEPT
                              !.checkpoint_model = r.checkpoint_model,
                              !.loaded = load_state_dict(su.args.state_dict,
                                                         r.checkpoint_model),
                              !.pc = "optimizer"]
       ELSE su' = [su EXCEPT !.pc = "optimizer"]
    /\ UNCHANGED ModelUnchanged

\* lines 582-616: optimizer, schedules and criterion, then main goes on to
\* auto_load_model and the epoch loop
BuildOptimizer ==
    /\ su.pc = "optimizer"
    /\ pc = "idle"
    /\ su' = [su EXCEPT !.optimizer = TRUE, !.schedules = TRUE, !.pc = "built"]
    /\ pc' = "startup"
    /\ UNCHANGED <<args, start_epoch, restarts, locals, persistent, tw, pgd>>

NextModel ==
    \/ CreateModel
    \/ Finetune
    \/ BuildOptimizer
    \/ Next

SpecModel == InitModel /\ [][NextModel]_vars

\* C16: with a model name that starts with none of swin, deit, convnext,
\* poolformer, main raises at model creation: no optimizer and no schedule
\* is built, no training epoch is entered, no checkpoint is written and no
\* log record is appended.
C16_UnknownFamilyFatal ==
    (su.pc \notin {"idle", "create_model"}
       /\ ~StartsWith(su.args.model, <<"s", "w", "i", "n">>)
       /\ ~StartsWith(su.args.model, <<"d", "e", "i", "t">>)
       /\ ~StartsWith(su.args.model, <<"c", "o", "n", "v", "n", "e", "x", "t">>)
       /\ ~StartsWith(su.args.model, <<"p", "o", "o", "l", "f", "o", "r", "m", "e", "r">>)) =>
        /\ su.pc = "error"
        /\ su.raised = "AssertionError"
        /\ ~su.optimizer /\ ~su.schedules
        /\ pc = "idle"
        /\ steps = <<>> /\ train_stats = EmptyStats
        /\ latest_slot = NoEpoch /\ best_slot = EmptyStats
        /\ log = <<>>

C16_Witness ==
    /\ su.pc = "error"
    /\ su.raised = "AssertionError"
    /\ su.args.model = <<"v", "i", "t", "_", "d", "e", "i", "t">>
    /\ su.args.finetune
    /\ pc = "idle"

\* C17: loading a fine-tune checkpoint never stops the run: every entry of
\* the checkpoint whose key the model lacks or whose shape differs from the
\* model's is left out, and every other entry is loaded, for any keys of
\* model and checkpoint.
C17_FinetuneNeverFatal ==
    (su.pc \notin {"idle", "create_model", "finetune"}
       /\ model_family(su.args.model) # "raise" /\ su.args.finetune) =>
        /\ su.pc # "error"
        /\ su.loaded = {k \in DOMAIN su.args.state_dict \cap DOMAIN su.args.checkpoint_model :
                           su.args.checkpoint_model[k] = su.args.state_dict[k]}

\* C21: a run whose model is not wrapped for data parallelism has the flow
\* of a distributed run: in every epoch the train attacker is installed and
\* train_one_epoch is entered, in evaluated epochs the no-op attacker and
\* then val_attacker are installed, and the run completes its epochs.
C21_NonDistributedSameFlow ==
    (~args.distributed /\ ~args.disable_eval) =>
        /\ pc # "error"
        /\ pc \in {"train", "save"} => model_attacker = "train_attacker"
        /\ pc = "eval_robust" => model_attacker = "NoOpAttacker"
        /\ pc = "compare" => model_attacker = "val_attacker"
        /\ pc = "done" => epoch = args.epochs

(***************************************************************************)
(* The three places of main that depend on mixing: the mixing function,    *)
(* lines 458-465 and, under the curriculum, 658-759; the model's flag,     *)
(* lines 500-503; the criterion, lines 607-614.  Alphas and probabilities  *)
(* are in hundredths.                                                      *)
(***************************************************************************)
MaxMixEpochs ==
    6

\* mixup_fn = None
NoMixup == [kind |-> "None"]

\* line 459
mixup_active(a) == a.mixup > 0 \/ a.cutmix > 0 \/ a.cutmix_minmax

\* lines 607-614
criterion(a, active) ==
    IF active
    THEN "SoftTargetCrossEntropy"
    ELSE IF a.smoothing > 0
    THEN "LabelSmoothingCrossEntropy"
    ELSE "CrossEntropyLoss"

\* the arguments of Mixup(...) at lines 462-465 and 756-759
MixupArgs(a) ==
    [kind |-> "Mixup", mixup_alpha |-> a.mixup, cutmix_alpha |-> a.cutmix,
     cutmix_minmax |-> a.cutmix_minmax, prob |-> a.mixup_prob,
     switch_prob |-> a.mixup_switch_prob]

MixArgs ==
    {a \in [mixup : {0, 80}, cutmix : {0, 100}, cutmix_minmax : BOOLEAN,
            mixup_prob : {100}, mixup_switch_prob : {50}, smoothing : {0, 10},
            use_augwarmup : BOOLEAN, warmup_epochs : WarmupChoices,
            epochs : 1..MaxMixEpochs] :
        ~a.use_augwarmup => a.warmup_epochs = 20}

InitMix ==
    /\ args = IdleArgs
    /\ start_epoch = 0
    /\ pc = "idle"
    /\ restarts = 0
    /\ FreshLocals
    /\ FreshFiles
    /\ tw = TwIdle
    /\ pgd = PgdIdle
    /\ \E a \in MixArgs :
          su = [pc |-> "mix_startup", args |-> a, mixup_active |-> FALSE,
                mixup_fn |-> NoMixup, model_mixup |-> FALSE, criterion |-> "none",
                epoch |-> 0, passed |-> NoMixup, trained |-> 0]

MixUnchanged == <<args, start_epoch, pc, restarts, locals, persistent, tw, pgd>>

\* lines 458-465, 500-503 and 607-614
MixStartup ==
    /\ su.pc = "mix_startup"
    /\ LET active == mixup_active(su.args)
       IN su' = [su EXCEPT
              !.mixup_active = active,
              !.mixup_fn = IF active THEN Mixup(MixupArgs(su.args)) ELSE NoMixup,
              !.model_mixup = active,
              !.criterion = criterion(su.args, active),
              !.pc = "mix_loop"]
    /\ UNCHANGED MixUnchanged

\* lines 657-759: the loop header and the curriculum, which writes three
\* fields of args and builds a new Mixup
MixCurriculum ==
    /\ su.pc = "mix_loop"
    /\ IF su.epoch < su.args.epochs
       THEN IF su.args.use_augwarmup
            THEN LET sel == select(su.args.warmup_epochs, su.epoch)
                     a == [su.args EXCEPT !.mixup_prob = sel.mixup_prob,
                                          !.cutmix = sel.cutmix,
                                          !.mixup_switch_prob = sel.mixup_switch_prob]
                 IN su' = [su EXCEPT !.args = a, !.mixup_fn = Mixup(MixupArgs(a)),
                                     !.pc = "mix_train"]
            ELSE su' = [su EXCEPT !.pc = "mix_train"]
       ELSE su' = [su EXCEPT !.pc = "mix_done"]
    /\ UNCHANGED MixUnchanged

\* lines 769-776: train_one_epoch is called with criterion and mixup_fn
MixTrain ==
    /\ su.pc = "mix_train"
    /\ su' = [su EXCEPT !.passed = su.mixup_fn, !.trained = @ + 1,
                        !.epoch = @ + 1, !.pc = "mix_loop"]
    /\ UNCHANGED MixUnchanged

NextMix ==
    \/ MixStartup
    \/ MixCurriculum
    \/ MixTrain

SpecMix == InitMix /\ [][NextMix]_vars

\* C22: in every training epoch a mixing function is passed to
\* train_one_epoch exactly when the model's mixing flag is set, and exactly
\* when the criterion is the soft-target cross entropy, for every setting of
\* mixup, cutmix, cutmix_minmax and the curriculum switch.
C22_MixingFactsAgree ==
    (su.pc \in {"mix_loop", "mix_train", "mix_done"} /\ su.trained >= 1) =>
        /\ su.passed # NoMixup <=> su.model_mixup
        /\ su.model_mixup <=> su.criterion = "SoftTargetCrossEntropy"

====
